---------------------------- MODULE Spec2Model ----------------------------
(***************************************************************************)
(* Model of adjust_video.py: the batch re-encoding script.                 *)
(*                                                                         *)
(* main() globs the candidate files, checks that ffmpeg can be invoked,    *)
(* then for every candidate probes its codec with ffprobe, skips it when   *)
(* the codec is 'h264', and otherwise runs ffmpeg into a temporary sibling *)
(* path which is renamed over the original on success and removed on       *)
(* failure.  ffprobe and ffmpeg are external programs: the model gives     *)
(* them a file system to read and write and leaves their exit status to    *)
(* the environment.  str.strip, str.replace and sorted() are computed on    *)
(* tuples of one-character strings; paths are kept in the state as strings.*)
(***************************************************************************)
EXTENDS Integers, Sequences, FiniteSets, TLC

(***************************************************************************)
(* Bounds of the model.                                                    *)
(***************************************************************************)
\* number of files video_0446.mp4, video_0447.mp4, ... the directory may
\* hold, each with a file at its derived temporary name; the pattern of
\* main() names the first one alone
NumScenes == 2
\* number of successive runs of main() on the same directory
MaxRuns == 2

(***************************************************************************)
(* Strings.                                                                *)
(***************************************************************************)
Digits == <<"0", "1", "2", "3", "4", "5", "6", "7", "8", "9">>

\* code points of the characters that occur in the paths (Python compares
\* strings by code point)
CharCode(c) ==
    CASE c = "." -> 46
      [] c = "/" -> 47
      [] c = "0" -> 48 [] c = "1" -> 49 [] c = "2" -> 50 [] c = "3" -> 51
      [] c = "4" -> 52 [] c = "5" -> 53 [] c = "6" -> 54 [] c = "7" -> 55
      [] c = "8" -> 56 [] c = "9" -> 57
      [] c = "_" -> 95
      [] c = "a" -> 97 [] c = "c" -> 99 [] c = "d" -> 100 [] c = "e" -> 101
      [] c = "i" -> 105 [] c = "m" -> 109 [] c = "o" -> 111 [] c = "p" -> 112
      [] c = "s" -> 115 [] c = "t" -> 116 [] c = "v" -> 118

\* the string spelled by a tuple of characters
RECURSIVE Str(_)
Str(t) == IF t = <<>> THEN "" ELSE Head(t) \o Str(Tail(t))

\* Python's s < t on strings
RECURSIVE StrLess(_, _)
StrLess(s, t) ==
    IF t = <<>> THEN FALSE
    ELSE IF s = <<>> THEN TRUE
    ELSE IF Head(s) = Head(t) THEN StrLess(Tail(s), Tail(t))
    ELSE CharCode(Head(s)) < CharCode(Head(t))

\* a mutation of StrReplace: the derived name is the name itself
StrReplaceSame(s, old, new) == s

\* str.replace(old, new): every non-overlapping occurrence, left to right
RECURSIVE StrReplace(_, _, _)
StrReplace(s, old, new) ==
    IF Len(s) < Len(old) THEN s
    ELSE IF SubSeq(s, 1, Len(old)) = old
         THEN new \o StrReplace(SubSeq(s, Len(old) + 1, Len(s)), old, new)
         ELSE <<Head(s)>> \o StrReplace(Tail(s), old, new)

\* the characters str.strip() removes: those with str.isspace().  A character
\* that has no escape in a TLA+ string is spelled by its Python escape.
Whitespace ==
    {"\t", "\n", "\\x0b", "\f", "\r", "\\x1c", "\\x1d", "\\x1e", "\\x1f", " ",
     "\\x85", "\\xa0", "\\u1680", "\\u2000", "\\u2001", "\\u2002", "\\u2003",
     "\\u2004", "\\u2005", "\\u2006", "\\u2007", "\\u2008", "\\u2009", "\\u200a",
     "\\u2028", "\\u2029", "\\u202f", "\\u205f", "\\u3000"}

RECURSIVE LStrip(_)
LStrip(s) ==
    IF s # <<>> /\ Head(s) \in Whitespace THEN LStrip(Tail(s)) ELSE s

RECURSIVE RStrip(_)
RStrip(s) ==
    IF s # <<>> /\ s[Len(s)] \in Whitespace
    THEN RStrip(SubSeq(s, 1, Len(s) - 1)) ELSE s

\* str.strip()
Strip(s) == RStrip(LStrip(s))

(***************************************************************************)
(* Paths.                                                                  *)
(***************************************************************************)
\* str(Path('./static/videos') / name): pathlib drops the leading './'
video_dir == <<"s", "t", "a", "t", "i", "c", "/", "v", "i", "d", "e", "o", "s", "/">>

Mp4 == <<".", "m", "p", "4">>
TempMp4 == <<"_", "t", "e", "m", "p", ".", "m", "p", "4">>

\* video_pattern = str(video_dir / 'video_0446.mp4')
video_pattern ==
    video_dir \o <<"v", "i", "d", "e", "o", "_", "0", "4", "4", "6">> \o Mp4

\* the k-th file video_{scene_id}.mp4 the directory may hold; the first is
\* the one video_pattern names
VideoPath(k) ==
    video_dir \o <<"v", "i", "d", "e", "o", "_", "0", "4", "4", Digits[6 + k]>> \o Mp4

\* the spellings of the directory entries of the model: the video files and
\* the names str.replace derives from them
PathChars ==
    LET c == {VideoPath(k) : k \in 1..NumScenes}
    IN  c \cup {StrReplace(t, Mp4, TempMp4) : t \in c}

\* the characters of a path
Chars(path) == CHOOSE t \in PathChars : Str(t) = path

\* temp_output = video_path.replace('.mp4', '_temp.mp4')
TempOf(video_path) == Str(StrReplace(Chars(video_path), Mp4, TempMp4))

\* the directory entries of the model
Paths == {Str(t) : t \in PathChars}

\* glob.has_magic: the pattern has a wildcard character
has_magic(pattern) == \E i \in 1..Len(pattern) : pattern[i] \in {"*", "?", "["}

\* the paths glob.glob(video_pattern) can return: without a wildcard, the
\* pattern itself
Candidates == {p \in Paths : ~has_magic(video_pattern) /\ Chars(p) = video_pattern}

\* sorted(S) for a set of distinct paths
RECURSIVE sorted(_)
sorted(S) ==
    IF S = {} THEN <<>>
    ELSE LET m == CHOOSE x \in S : \A y \in S \ {x} : StrLess(Chars(x), Chars(y))
         IN  <<m>> \o sorted(S \ {m})

(***************************************************************************)
(* File contents.  A content is what a path resolves to: nothing, a whole  *)
(* media file, or the unfinished output of a running or failed ffmpeg.     *)
(*   kind  what ffprobe finds in it                                        *)
(*   src   the path whose bytes it was made from                           *)
(*   gen   how many times it went through ffmpeg                           *)
(***************************************************************************)
NoFile == [kind |-> "absent", src |-> "", gen |-> 0]

Original(p, k) == [kind |-> k, src |-> p, gen |-> 0]

\* what a successful ffmpeg run leaves at output_path
Converted(c) == [kind |-> "h264", src |-> c.src, gen |-> c.gen + 1]

\* what ffmpeg has at output_path while it runs, or after it failed midway
Partial(c) == [kind |-> "partial", src |-> c.src, gen |-> c.gen + 1]

\* the kinds of media file a candidate may be before any run
InitialKinds == {"h264", "mpeg4", "novideo", "corrupt"}

None == <<"None">>

\* no probe of the path has returned in this run
Unprobed == <<"Unprobed">>

\* subprocess.run(['ffprobe', ...]) on a file: exit status and stdout
ffprobe(c) ==
    CASE c.kind = "h264"    -> [returncode |-> 0, stdout |-> <<"h", "2", "6", "4", "\n">>]
      [] c.kind = "mpeg4"   -> [returncode |-> 0, stdout |-> <<"m", "p", "e", "g", "4", "\n">>]
      [] c.kind = "novideo" -> [returncode |-> 0, stdout |-> <<>>]
      [] OTHER              -> [returncode |-> 1, stdout |-> <<>>]

\* get_video_info: the stripped stdout, or None on CalledProcessError
get_video_info(c) ==
    LET result == ffprobe(c)
    IN  IF result.returncode # 0 THEN None ELSE Strip(result.stdout)

\* the codec main() skips: codec == 'h264'
TargetCodec == <<"h", "2", "6", "4">>

(***************************************************************************)
(* State.                                                                  *)
(***************************************************************************)
VARIABLES
    fs,             \* the file system: path -> content
    ffmpeg_bin,     \* what running 'ffmpeg -version' does
    ffprobe_bin,    \* what starting ffprobe does
    stdout_encoding,\* the encoding of sys.stdout, which print() writes to
    pc,             \* position of main()
    video_files,    \* sorted(glob.glob(video_pattern))
    idx,            \* position of the for loop in video_files (from 1)
    codec,          \* result of get_video_info for the current file
    success_count,
    skip_count,
    summary,        \* the numbers printed at the end of the run
    run,            \* number of the current run of main()
    prev,           \* how the previous run ended, and its summary
    fs0,            \* the file system when the current run started
    probes,         \* per path: ffprobe invocations in this run
    probe_failed,   \* paths whose probe failed in this run
    probed,         \* per path: what get_video_info returned in this run
    converts,       \* per path: convert_video invocations in this run
    convert_failed, \* paths whose ffmpeg run exited with a non-zero status
    replaces        \* per path: os.replace calls in this run

vars == <<fs, ffmpeg_bin, ffprobe_bin, stdout_encoding, pc, video_files, idx, codec, success_count,
          skip_count, summary, run, prev, fs0, probes, probe_failed,
          probed, converts, convert_failed, replaces>>

env == <<ffmpeg_bin, ffprobe_bin, stdout_encoding, run, prev, fs0>>
counts == <<success_count, skip_count>>
hist == <<probes, probe_failed, probed, converts, convert_failed, replaces>>

NoSummary == [converted |-> -1, skipped |-> -1, failed |-> -1, total |-> -1]
NoPrev == [pc |-> "none", summary |-> NoSummary]

video_path == video_files[idx]
temp_output == TempOf(video_path)

\* the for loop: the next file, or the summary after the last one
LoopNext(j) == IF j <= Len(video_files) THEN "probe" ELSE "summary"

Terminal == {"done", "nofiles", "notool", "crashed"}

\* what starting a binary can do: run (exit status 0), exit with a non-zero
\* status (CalledProcessError), not be found (FileNotFoundError), or be
\* found but not executable (PermissionError)
FfmpegOutcomes == {"ok", "exit1", "missing", "nonexec"}

\* the same for ffprobe, which is run with text=True: one that starts may
\* print bytes that are not UTF-8 (UnicodeDecodeError)
FfprobeOutcomes == {"ok", "missing", "nonexec", "not_utf8"}

\* encodings sys.stdout may have, one of each kind that differs on the
\* marks the script prints
Encodings == {"utf-8", "latin-1", "ascii", "gbk", "shift_jis_2004"}

\* the code points of the marks main() and convert_video print: line 93
\* (circled dot), line 55 (check mark), line 58 (ballot x)
MarkCode(mark) ==
    CASE mark = "skip" -> 8857
      [] mark = "ok"   -> 10003
      [] mark = "fail" -> 10007

\* str.encode: which of the code points printed an encoding has
Encodable(encoding) ==
    CASE encoding = "utf-8"          -> {8857, 10003, 10007}
      [] encoding = "gbk"            -> {8857}
      [] encoding = "shift_jis_2004" -> {10003}
      [] encoding = "latin-1"        -> {}
      [] encoding = "ascii"          -> {}

\* print(mark) returns; otherwise it raises UnicodeEncodeError
print_ok(mark) == MarkCode(mark) \in Encodable(stdout_encoding)

(***************************************************************************)
(* Before the first run: the file the pattern names may exist, of any      *)
(* kind; any other entry of the directory may exist.                       *)
(***************************************************************************)
Init ==
    /\ \E kinds \in [Candidates -> {"absent"} \cup InitialKinds],
          others \in SUBSET (Paths \ Candidates) :
          fs = [p \in Paths |->
                  IF p \in Candidates
                  THEN IF kinds[p] = "absent" THEN NoFile ELSE Original(p, kinds[p])
                  ELSE IF p \in others THEN Original(p, "mpeg4") ELSE NoFile]
    /\ ffmpeg_bin \in FfmpegOutcomes
    /\ ffprobe_bin \in FfprobeOutcomes
    /\ stdout_encoding \in Encodings
    /\ pc = "discover"
    /\ video_files = <<>>
    /\ idx = 0
    /\ codec = None
    /\ success_count = 0
    /\ skip_count = 0
    /\ summary = NoSummary
    /\ run = 1
    /\ prev = NoPrev
    /\ fs0 = fs
    /\ probes = [p \in Candidates |-> 0]
    /\ probe_failed = {}
    /\ probed = [p \in Candidates |-> Unprobed]
    /\ converts = [p \in Candidates |-> 0]
    /\ convert_failed = {}
    /\ replaces = [p \in Candidates |-> 0]

(***************************************************************************)
(* main()                                                                  *)
(***************************************************************************)
\* glob.glob(video_pattern): the pattern has no wildcard, so the result is
\* the pattern itself when a file of that name exists
glob == {p \in Candidates : fs[p] # NoFile}

\* lines 67-74: discovery; no match ends the run
Discover ==
    /\ pc = "discover"
    /\ video_files' = sorted(glob)
    /\ pc' = IF video_files' = <<>> THEN "nofiles" ELSE "preflight"
    /\ UNCHANGED <<fs, env, idx, codec, counts, summary, hist>>

\* a mutation of Preflight: the run goes on without ffmpeg
PreflightIgnored ==
    /\ pc = "preflight"
    /\ pc' = "probe"
    /\ idx' = 1
    /\ success_count' = 0
    /\ skip_count' = 0
    /\ UNCHANGED <<fs, env, video_files, codec, summary, hist>>

\* lines 76-86: 'ffmpeg -version' must run.  CalledProcessError and
\* FileNotFoundError are caught and main() returns; PermissionError is not
\* caught and main() ends with a traceback.
Preflight ==
    /\ pc = "preflight"
    /\ IF ffmpeg_bin = "ok"
       THEN /\ pc' = "probe"
            /\ idx' = 1
            /\ success_count' = 0
            /\ skip_count' = 0
       ELSE /\ pc' = IF ffmpeg_bin \in {"exit1", "missing"} THEN "notool" ELSE "crashed"
            /\ UNCHANGED <<idx, success_count, skip_count>>
    /\ UNCHANGED <<fs, env, video_files, codec, summary, hist>>

\* lines 88-97: probe the current file; skip it when it is already h264.
\* An ffprobe that cannot be started raises FileNotFoundError or
\* PermissionError, and one whose output is not UTF-8 raises
\* UnicodeDecodeError; get_video_info catches none of them and main() ends
\* with a traceback.  The skip message of line 93 is printed before
\* skip_count is incremented: when stdout cannot encode it, print raises
\* UnicodeEncodeError and main() ends with a traceback.
Probe ==
    /\ pc = "probe"
    /\ probes' = [probes EXCEPT ![video_path] = @ + 1]
    /\ IF ffprobe_bin # "ok"
       THEN /\ pc' = "crashed"
            /\ probe_failed' = probe_failed \cup {video_path}
            /\ UNCHANGED <<idx, codec, skip_count, probed>>
       ELSE /\ codec' = get_video_info(fs[video_path])
            /\ probed' = [probed EXCEPT ![video_path] = codec']
            /\ probe_failed' = IF codec' = None
                               THEN probe_failed \cup {video_path}
                               ELSE probe_failed
            /\ IF codec' = TargetCodec
               THEN IF print_ok("skip")
                    THEN /\ skip_count' = skip_count + 1
                         /\ idx' = idx + 1
                         /\ pc' = LoopNext(idx + 1)
                    ELSE /\ pc' = "crashed"
                         /\ UNCHANGED <<idx, skip_count>>
               ELSE /\ pc' = "convert"
                    /\ UNCHANGED <<idx, skip_count>>
    /\ UNCHANGED <<fs, env, video_files, success_count, summary,
                   converts, convert_failed, replaces>>

\* where convert_video goes after ffmpeg exited with a non-zero status:
\* the handler of line 57 prints the mark of line 58 and returns False, or
\* print raises UnicodeEncodeError, which nothing catches
AfterFailure == IF print_ok("fail") THEN "cleanup" ELSE "crashed"

\* where convert_video goes after ffmpeg exited with status 0: line 55
\* prints its mark and line 56 returns True, or print raises
AfterSuccess == IF print_ok("ok") THEN "replace" ELSE "crashed"

\* lines 99-103, 38-54: convert_video starts ffmpeg on temp_output.  ffmpeg
\* either fails before it opens its output, or opens it (-y) and writes; an
\* ffmpeg that exits with status 0 has written its output.  Output of
\* ffmpeg that is not UTF-8 makes subprocess.run(text=True) raise
\* UnicodeDecodeError, which convert_video does not catch.
ConvertStart ==
    /\ pc = "convert"
    /\ converts' = [converts EXCEPT ![video_path] = @ + 1]
    /\ \/ /\ pc' \in {AfterFailure, "crashed"}
          /\ convert_failed' = convert_failed \cup {video_path}
          /\ UNCHANGED fs
       \/ /\ fs[video_path] # NoFile
          /\ fs' = [fs EXCEPT ![temp_output] = Partial(fs[video_path])]
          /\ pc' = "ffmpeg"
          /\ UNCHANGED convert_failed
    /\ UNCHANGED <<env, video_files, idx, codec, counts, summary,
                   probes, probe_failed, probed, replaces>>

\* lines 54-60: ffmpeg exits; convert_video returns True or False, or an
\* exception leaves it
ConvertFinish ==
    /\ pc = "ffmpeg"
    /\ \/ /\ fs' = [fs EXCEPT ![temp_output] = Converted(fs[video_path])]
          /\ pc' \in {AfterSuccess, "crashed"}
          /\ UNCHANGED convert_failed
       \/ /\ pc' \in {AfterFailure, "crashed"}
          /\ convert_failed' = convert_failed \cup {video_path}
          /\ UNCHANGED fs
    /\ UNCHANGED <<env, video_files, idx, codec, counts, summary,
                   probes, probe_failed, probed, converts, replaces>>

\* os.replace(src, dst): rename, atomically, over dst; without a file at
\* src it raises FileNotFoundError and changes nothing
os_replace(f, src, dst) ==
    IF f[src] = NoFile THEN [exc |-> "FileNotFoundError", files |-> f]
    ELSE IF src = dst THEN [exc |-> "none", files |-> f]
    ELSE [exc |-> "none", files |-> [f EXCEPT ![dst] = f[src], ![src] = NoFile]]

\* lines 103-106, 112: convert_video returned True
Replace ==
    /\ pc = "replace"
    /\ LET r == os_replace(fs, temp_output, video_path)
       IN  /\ fs' = r.files
           /\ IF r.exc = "none"
              THEN /\ replaces' = [replaces EXCEPT ![video_path] = @ + 1]
                   /\ success_count' = success_count + 1
                   /\ idx' = idx + 1
                   /\ pc' = LoopNext(idx + 1)
              ELSE /\ pc' = "crashed"
                   /\ UNCHANGED <<replaces, success_count, idx>>
    /\ UNCHANGED <<env, video_files, codec, skip_count, summary,
                   probes, probe_failed, probed, converts, convert_failed>>

\* lines 107-112: convert_video returned False
Cleanup ==
    /\ pc = "cleanup"
    /\ fs' = IF fs[temp_output] # NoFile
             THEN [fs EXCEPT ![temp_output] = NoFile]
             ELSE fs
    /\ idx' = idx + 1
    /\ pc' = LoopNext(idx + 1)
    /\ UNCHANGED <<env, video_files, codec, counts, summary, hist>>

\* lines 114-119: the summary
Summary ==
    /\ pc = "summary"
    /\ summary' = [converted |-> success_count,
                   skipped   |-> skip_count,
                   failed    |-> Len(video_files) - success_count - skip_count,
                   total     |-> Len(video_files)]
    /\ pc' = "done"
    /\ UNCHANGED <<fs, env, video_files, idx, codec, counts, hist>>

\* line 122: the script is run again on the same directory
Rerun ==
    /\ pc \in Terminal
    /\ run < MaxRuns
    /\ run' = run + 1
    /\ prev' = [pc |-> pc, summary |-> summary]
    /\ fs0' = fs
    /\ pc' = "discover"
    /\ video_files' = <<>>
    /\ idx' = 0
    /\ codec' = None
    /\ success_count' = 0
    /\ skip_count' = 0
    /\ summary' = NoSummary
    /\ probes' = [p \in Candidates |-> 0]
    /\ probe_failed' = {}
    /\ probed' = [p \in Candidates |-> Unprobed]
    /\ converts' = [p \in Candidates |-> 0]
    /\ convert_failed' = {}
    /\ replaces' = [p \in Candidates |-> 0]
    /\ UNCHANGED <<fs, ffmpeg_bin, ffprobe_bin, stdout_encoding>>

Next ==
    \/ Discover
    \/ Preflight
    \/ Probe
    \/ ConvertStart
    \/ ConvertFinish
    \/ Replace
    \/ Cleanup
    \/ Summary
    \/ Rerun

Spec == Init /\ [][Next]_vars

(***************************************************************************)
(* Properties.                                                             *)
(***************************************************************************)
\* the codec name the specification calls the target codec
H264 == <<"h", "2", "6", "4">>

\* the candidates of the current run
Discovered == {video_files[i] : i \in 1..Len(video_files)}

\* the candidates the for loop has finished with
Processed == {video_files[i] : i \in 1..(IF idx - 1 < Len(video_files) THEN idx - 1 ELSE Len(video_files))}

\* the candidates whose probe or transcode failed in this run
FailedFiles == probe_failed \cup convert_failed

\* the positions of main() inside and after the for loop
PastPreflight == {"probe", "convert", "ffmpeg", "replace", "cleanup", "summary", "done", "crashed"}

\* C1: a candidate for which get_video_info reported a failed probe is
\* never passed to convert_video, is not replaced, is counted as failed in
\* the summary, and the run goes on to the remaining candidates.
C1_ProbeFailureIsPerFileFailure ==
    /\ \A p \in Candidates :
          probed[p] = None =>
              /\ converts[p] = 0
              /\ replaces[p] = 0
              /\ fs[p] = fs0[p]
    /\ pc = "done" =>
          /\ summary.failed >= Cardinality({p \in Candidates : probed[p] = None})
          /\ \A p \in Discovered : probes[p] = 1

\* C2: at every moment every candidate's path resolves to its whole content
\* of before the run or to whole converted content; the temporary path is
\* another path than the original; and the original path changes only in
\* the replace step, which puts the finished output of ffmpeg there.
C2_NoPartialVisibility ==
    /\ [](\A p \in Discovered :
             /\ TempOf(p) # p
             /\ fs[p] # NoFile
             /\ fs[p].kind # "partial"
             /\ fs[p] \in {fs0[p], Converted(fs0[p])})
    /\ [][\A p \in Candidates :
             fs'[p] # fs[p] =>
                 /\ pc = "replace"
                 /\ p = video_path
                 /\ fs[temp_output] = Converted(fs[p])
                 /\ fs'[p] = Converted(fs[p])]_vars

\* C2 happens: ffmpeg is writing the temporary file of a candidate, over a
\* file that was there, while the candidate's path holds its whole content
\* of before the run.
C2_Witness ==
    /\ pc = "ffmpeg"
    /\ fs[temp_output].kind = "partial"
    /\ fs0[temp_output] # NoFile
    /\ fs[video_path] = fs0[video_path]
    /\ fs[video_path].kind = "mpeg4"

\* C3: when probing or transcoding fails for exactly one candidate, the
\* other candidates are each skipped or converted, the run reaches the
\* summary and the failed count is 1; nothing after the preflight check
\* ends the run early.
C3_FailureIsolation ==
    /\ ffmpeg_bin = "ok" => pc # "crashed"
    /\ (pc = "done" /\ Cardinality(FailedFiles) = 1) =>
          /\ summary.failed = 1
          /\ \A p \in Discovered \ FailedFiles :
                \/ probed[p] = H264 /\ fs[p] = fs0[p]
                \/ replaces[p] = 1 /\ fs[p] = Converted(fs0[p])

\* C4: idempotence on a file set the first run left converted.  When a run
\* reached the summary with a failed count of 0, the run that follows it on
\* the same files transcodes nothing, replaces nothing, changes no file,
\* does not end before its summary, and its summary has no converted file
\* and counts every candidate, the same number as before, as skipped.
C4_SecondRunSkipsAll ==
    (run >= 2 /\ prev.pc = "done" /\ prev.summary.failed = 0) =>
        /\ \A p \in Candidates : converts[p] = 0 /\ replaces[p] = 0
        /\ fs = fs0
        /\ pc # "crashed"
        /\ \A p \in Candidates : probed[p] \in {Unprobed, H264}
        /\ pc \in PastPreflight =>
              skip_count = Cardinality({p \in Candidates : probes[p] > 0})
        /\ pc = "done" => /\ summary.converted = 0
                          /\ summary.failed = 0
                          /\ summary.skipped = summary.total
                          /\ summary.total = prev.summary.total

\* C5: a candidate whose probe returned 'h264' is never passed to
\* convert_video, nothing is written at its temporary path, its content is
\* unchanged, and the skipped count is the number of such candidates.
C5_SkipCorrectness ==
    /\ \A p \in Candidates :
          probed[p] = H264 =>
              /\ converts[p] = 0
              /\ replaces[p] = 0
              /\ fs[p] = fs0[p]
              /\ fs[TempOf(p)] = fs0[TempOf(p)]
              /\ p \in Processed
    /\ pc \in PastPreflight =>
          skip_count = Cardinality({p \in Candidates : probed[p] = H264})

\* C6: when ffmpeg cannot be invoked, the run never gets past the preflight
\* check: no candidate is probed or transcoded and no path of the file
\* system changes.
C6_PreflightFailFast ==
    ffmpeg_bin # "ok" =>
        /\ pc \in {"discover", "preflight", "nofiles", "notool", "crashed"}
        /\ fs = fs0
        /\ \A p \in Candidates : probes[p] = 0 /\ converts[p] = 0 /\ replaces[p] = 0

\* C6 happens: the run ended at the preflight check with a candidate that
\* is not h264 on disk.
C6_Witness ==
    /\ pc \in {"notool", "crashed"}
    /\ ffmpeg_bin # "ok"
    /\ \E p \in Discovered : fs[p].kind = "mpeg4"

\* C7: once ffmpeg has exited with a non-zero status for a candidate and
\* the code that follows the transcode has run, the temporary file
\* of that candidate does not exist, its original is unchanged, it is
\* neither converted nor skipped, the loop has moved past it, and a summary
\* counts exactly the candidates whose transcode failed as failed.
C7_TranscodeFailureHandling ==
    /\ \A p \in convert_failed :
          ~(pc = "cleanup" /\ video_path = p) =>
              /\ fs[TempOf(p)] = NoFile
              /\ fs[p] = fs0[p]
              /\ replaces[p] = 0
              /\ probed[p] # H264
              /\ p \in Processed
              /\ pc \in {"probe", "convert", "ffmpeg", "replace", "cleanup",
                         "summary", "done"}
    /\ pc = "done" =>
          /\ summary.failed = Cardinality(convert_failed)
          /\ \A p \in Discovered : probes[p] = 1

\* C8: when a run has ended, the temporary path of every candidate that was
\* passed to convert_video holds no file, and no temporary path holds
\* anything the run wrote.
C8_TempFileCleanup ==
    pc \in Terminal =>
        \A p \in Candidates :
            /\ converts[p] > 0 => fs[TempOf(p)] = NoFile
            /\ fs[TempOf(p)] \in {NoFile, fs0[TempOf(p)]}

\* C9: when a run has ended, the only paths whose content or existence
\* differs from before the run are candidates that were converted; a file
\* that was at a derived temporary path before the run is still there.
C9_DiskEffectFrame ==
    pc \in Terminal =>
        \A p \in Paths :
            fs[p] # fs0[p] => p \in Discovered /\ replaces[p] = 1

\* C10: in a run that reached the summary every candidate was probed once,
\* transcoded and replaced at most once; converted is the number of
\* replaced candidates, skipped the number probed as h264, failed is
\* total - converted - skipped and the number of candidates whose probe or
\* transcode failed, and the three counts add up to the total.
C10_SummaryAccounting ==
    pc = "done" =>
        /\ \A p \in Discovered :
              probes[p] = 1 /\ converts[p] <= 1 /\ replaces[p] <= 1
        /\ summary.total = Cardinality(Discovered)
        /\ summary.converted = Cardinality({p \in Discovered : replaces[p] = 1})
        /\ summary.skipped = Cardinality({p \in Discovered : probed[p] = H264})
        /\ summary.failed = summary.total - summary.converted - summary.skipped
        /\ summary.failed = Cardinality(FailedFiles)
        /\ summary.converted + summary.skipped + summary.failed = summary.total

=============================================================================
